---------------------------- MODULE Spec2Model ----------------------------
(***************************************************************************)
(* A model of homework.py: the workout records (Training and its three     *)
(* variants), their formulas, the InfoMessage renderer, the read_package   *)
(* dispatcher, main, and the loop of the __main__ block.                   *)
(*                                                                         *)
(* Numbers.  Python's int and float values are modelled as exact rationals *)
(* <<n, d>> in lowest terms with d > 0.  The formulas are evaluated in the *)
(* order the code evaluates them; the binary rounding of a float (an error *)
(* far below the three decimals the program prints) is not modelled.       *)
(*                                                                         *)
(* Text.  The Cyrillic string literals of lines 4-11 are written here in   *)
(* Latin letters, one constant per literal.                                *)
(***************************************************************************)
EXTENDS Integers, Sequences, FiniteSets, TLC

VARIABLES
    name,       \* __name__: "__main__" (run as a script) or "homework" (imported)
    packages,   \* the list the __main__ block iterates
    i,          \* position of the for loop in packages (1-based)
    pc,         \* "for" | "main" | "print" | "exit" | "raised" (script);
                \* "client" (imported)
    training,   \* the record bound to `training`, or None
    info,       \* the InfoMessage last returned by show_training_info, or None
    ret,        \* outcome of the last call: a return value or a raised exception
    op,         \* name of the last operation called
    args,       \* arguments of the last read_package / constructor call
    stdout,     \* the lines printed so far
    built,      \* history: the record as its constructor left it
    first,      \* history: per method, the outcome of its first call on the record
    again       \* history: the last call repeated a method already called

vars == <<name, packages, i, pc, training, info, ret, op, args, stdout, built,
          first, again>>

---------------------------------------------------------------------------
(* Bounds of the explored inputs *)

MaxDuration == 2
MaxEntries == 3

Steps == {0, 9000, 15000}
Strokes == {720}
Durations == 0..MaxDuration
Weights == {75, 80}
Fourths == {-2, 0, 25, 180}
Fifths == {0, 40}
TypeCodes == {"SWM", "RUN", "WLK", "XXX"}

---------------------------------------------------------------------------
(* Arithmetic on rationals *)

Abs(n) == IF n < 0 THEN -n ELSE n

RECURSIVE GCD(_, _)
GCD(a, b) == IF b = 0 THEN a ELSE GCD(b, a % b)

Q(n, d) ==
    LET g == GCD(Abs(n), Abs(d))
        s == IF d < 0 THEN -1 ELSE 1
    IN  <<(s * n) \div g, (s * d) \div g>>

I(n) == <<n, 1>>

QAdd(x, y) == Q(x[1] * y[2] + y[1] * x[2], x[2] * y[2])
QSub(x, y) == Q(x[1] * y[2] - y[1] * x[2], x[2] * y[2])
QMul(x, y) ==
    LET a == Q(x[1], y[2])
        b == Q(y[1], x[2])
    IN  Q(a[1] * b[1], a[2] * b[2])
QDiv(x, y) == QMul(x, Q(y[2], y[1]))
QFloor(x) == I(x[1] \div x[2])
QFloorDiv(x, y) == QFloor(QDiv(x, y))
QLess(x, y) == x[1] * y[2] < y[1] * x[2]

---------------------------------------------------------------------------
(* Outcomes of a call *)

None == [cls |-> "None"]
Ret(v) == [kind |-> "return", value |-> v]
Raise(e, a) == [kind |-> "raise", exc |-> e, arg |-> a]
Returned(o) == o.kind = "return"
Raised(o, e) == o.kind = "raise" /\ o.exc = e

---------------------------------------------------------------------------
(* Module constants, lines 4-11 *)

TRAINING_TYPE_STR == "Tip trenirovki"
DURATION_STR == "Dlitelnost"
DISTANCE_STR == "Distantsiya"
SPEED_STR == "Sr. skorost"
CALORIES_STR == "Potracheno kkal"
HOUR_STR == "ch"
KM_STR == "km"
KM_IN_H_STR == "km/ch"

(* Class attributes *)

M_IN_KM == 1000
M_IN_H == 60
LEN_STEP_Swimming == Q(138, 100)
LEN_STEP_Training == Q(65, 100)
(* Variant of LEN_STEP: the Swimming override missing *)
LEN_STEP_base(self) == LEN_STEP_Training

LEN_STEP(self) ==
    IF self.cls = "Swimming" THEN LEN_STEP_Swimming ELSE LEN_STEP_Training

Running_COEFF_CALORIE_1 == 18
Running_COEFF_CALORIE_2 == 20
SportsWalking_COEFF_CALORIE_1 == Q(35, 1000)
SportsWalking_COEFF_CALORIE_2 == Q(29, 1000)
Swimming_COEFF_CALORIE_1 == Q(11, 10)
Swimming_COEFF_CALORIE_2 == 2

---------------------------------------------------------------------------
(* Constructors.  Each takes the positional argument list and raises       *)
(* TypeError when its length is not the number of parameters.              *)

Training_init(cls, a) ==
    IF Len(a) # 3 THEN Raise("TypeError", cls)
    ELSE Ret([cls |-> cls, action |-> a[1], duration |-> a[2], weight |-> a[3]])

SportsWalking_init(a) ==
    IF Len(a) # 4 THEN Raise("TypeError", "SportsWalking")
    ELSE Ret([cls |-> "SportsWalking", action |-> a[1], duration |-> a[2],
              weight |-> a[3], height |-> a[4]])

(* Variant of Swimming_init: the two pool arguments stored crosswise *)
Swimming_init_swapped(a) ==
    IF Len(a) # 5 THEN Raise("TypeError", "Swimming")
    ELSE Ret([cls |-> "Swimming", action |-> a[1], duration |-> a[2],
              weight |-> a[3], length_pool |-> a[5], count_pool |-> a[4]])

Swimming_init(a) ==
    IF Len(a) # 5 THEN Raise("TypeError", "Swimming")
    ELSE Ret([cls |-> "Swimming", action |-> a[1], duration |-> a[2],
              weight |-> a[3], length_pool |-> a[4], count_pool |-> a[5]])

---------------------------------------------------------------------------
(* Methods of Training and its variants *)

get_distance(self) ==
    Ret(QDiv(QMul(I(self.action), LEN_STEP(self)), I(M_IN_KM)))

(* Variant of Training_get_mean_speed: a zero duration guarded, speed 0 *)
Training_get_mean_speed_guarded(self) ==
    IF self.duration = 0 THEN Ret(I(0))
    ELSE Ret(QDiv(get_distance(self).value, I(self.duration)))

Training_get_mean_speed(self) ==
    IF self.duration = 0 THEN Raise("ZeroDivisionError", "get_mean_speed")
    ELSE Ret(QDiv(get_distance(self).value, I(self.duration)))

Swimming_get_mean_speed(self) ==
    IF self.duration = 0 THEN Raise("ZeroDivisionError", "get_mean_speed")
    ELSE Ret(QDiv(QDiv(QMul(I(self.length_pool), I(self.count_pool)), I(M_IN_KM)),
                  I(self.duration)))

get_mean_speed(self) ==
    IF self.cls = "Swimming" THEN Swimming_get_mean_speed(self)
    ELSE Training_get_mean_speed(self)

Training_get_spent_calories(self) == Raise("NotImplementedError", "get_spent_calories")

(* Variant of Running_get_spent_calories: the second coefficient added *)
Running_get_spent_calories_plus(self) ==
    LET speed == get_mean_speed(self)
    IN  IF ~Returned(speed) THEN speed
        ELSE Ret(QMul(QMul(QDiv(QMul(QAdd(QMul(I(Running_COEFF_CALORIE_1), speed.value),
                                          I(Running_COEFF_CALORIE_2)),
                                     I(self.weight)),
                                I(M_IN_KM)),
                           I(self.duration)),
                      I(M_IN_H)))

Running_get_spent_calories(self) ==
    LET speed == get_mean_speed(self)
    IN  IF ~Returned(speed) THEN speed
        ELSE Ret(QMul(QMul(QDiv(QMul(QSub(QMul(I(Running_COEFF_CALORIE_1), speed.value),
                                          I(Running_COEFF_CALORIE_2)),
                                     I(self.weight)),
                                I(M_IN_KM)),
                           I(self.duration)),
                      I(M_IN_H)))

(* Variant of SportsWalking_get_spent_calories: / in place of // *)
SportsWalking_get_spent_calories_truediv(self) ==
    LET speed == get_mean_speed(self)
    IN  IF ~Returned(speed) THEN speed
        ELSE IF self.height = 0
        THEN Raise("ZeroDivisionError", "get_spent_calories")
        ELSE Ret(QMul(QMul(QAdd(QMul(SportsWalking_COEFF_CALORIE_1, I(self.weight)),
                                QMul(QMul(QDiv(QMul(speed.value, speed.value),
                                               I(self.height)),
                                          SportsWalking_COEFF_CALORIE_2),
                                     I(self.weight))),
                           I(self.duration)),
                      I(M_IN_H)))

SportsWalking_get_spent_calories(self) ==
    LET speed == get_mean_speed(self)
    IN  IF ~Returned(speed) THEN speed
        ELSE IF self.height = 0
        THEN Raise("ZeroDivisionError", "get_spent_calories")
        ELSE Ret(QMul(QMul(QAdd(QMul(SportsWalking_COEFF_CALORIE_1, I(self.weight)),
                                QMul(QMul(QFloorDiv(QMul(speed.value, speed.value),
                                                    I(self.height)),
                                          SportsWalking_COEFF_CALORIE_2),
                                     I(self.weight))),
                           I(self.duration)),
                      I(M_IN_H)))

Swimming_get_spent_calories(self) ==
    LET speed == get_mean_speed(self)
    IN  IF ~Returned(speed) THEN speed
        ELSE Ret(QMul(QMul(QAdd(speed.value, Swimming_COEFF_CALORIE_1),
                           I(Swimming_COEFF_CALORIE_2)),
                      I(self.weight)))

get_spent_calories(self) ==
    CASE self.cls = "Running" -> Running_get_spent_calories(self)
      [] self.cls = "SportsWalking" -> SportsWalking_get_spent_calories(self)
      [] self.cls = "Swimming" -> Swimming_get_spent_calories(self)
      [] OTHER -> Training_get_spent_calories(self)

(* Variant of type_name: the name of the class that defines the method *)
type_name_base(self) == "Training"

(* type(self).__name__ *)
type_name(self) == self.cls

show_training_info(self) ==
    LET distance == get_distance(self)
        speed == get_mean_speed(self)
        calories == get_spent_calories(self)
    IN  IF ~Returned(speed) THEN speed
        ELSE IF ~Returned(calories) THEN calories
        ELSE Ret([training_type |-> type_name(self),
                  duration |-> self.duration,
                  distance |-> distance.value,
                  speed |-> speed.value,
                  calories |-> calories.value])


---------------------------------------------------------------------------
(* InfoMessage.get_message: the five fields in the fixed template, every   *)
(* number in the format .3f (three decimals, round-half-even, sign kept).  *)

Pad3(f) ==
    IF f < 10 THEN "00" \o ToString(f)
    ELSE IF f < 100 THEN "0" \o ToString(f)
    ELSE ToString(f)

Fmt3(x) ==
    LET n == Abs(x[1])
        d == x[2]
        whole == n \div d
        r == n % d
        digits == (r * 1000) \div d
        rest == (r * 1000) % d
        up == 2 * rest > d \/ (2 * rest = d /\ digits % 2 = 1)
        thousandths == whole * 1000 + digits + (IF up THEN 1 ELSE 0)
    IN  (IF x[1] < 0 THEN "-" ELSE "")
            \o ToString(thousandths \div 1000) \o "." \o Pad3(thousandths % 1000)

get_message(self) ==
    Ret(TRAINING_TYPE_STR \o ": " \o self.training_type \o "; "
        \o DURATION_STR \o ": " \o Fmt3(I(self.duration)) \o " " \o HOUR_STR \o ".; "
        \o DISTANCE_STR \o ": " \o Fmt3(self.distance) \o " " \o KM_STR \o "; "
        \o SPEED_STR \o ": " \o Fmt3(self.speed) \o " " \o KM_IN_H_STR \o "; "
        \o CALORIES_STR \o ": " \o Fmt3(self.calories) \o ".")

---------------------------------------------------------------------------
(* read_package: its outcome and the lines it prints *)

UNKNOWN_STR == "Unknown workout type"

codes == [c \in {"SWM", "RUN", "WLK"} |->
            CASE c = "SWM" -> "Swimming"
              [] c = "RUN" -> "Running"
              [] c = "WLK" -> "SportsWalking"]

construct(cls, data) ==
    CASE cls = "Swimming" -> Swimming_init(data)
      [] cls = "SportsWalking" -> SportsWalking_init(data)
      [] OTHER -> Training_init(cls, data)

(* Variant of read_package: an unknown code falls back to Running *)
read_package_default(workout_type, data) ==
    IF workout_type \notin DOMAIN codes
    THEN [result |-> construct("Running", data), out |-> <<>>]
    ELSE [result |-> construct(codes[workout_type], data), out |-> <<>>]

(* Variant of read_package: every exception handled as an unknown type *)
read_package_except_all(workout_type, data) ==
    IF workout_type \notin DOMAIN codes
    THEN [result |-> Raise("KeyError", workout_type), out |-> <<UNKNOWN_STR>>]
    ELSE LET made == construct(codes[workout_type], data)
         IN  [result |-> made,
              out |-> IF Returned(made) THEN <<>> ELSE <<UNKNOWN_STR>>]

read_package(workout_type, data) ==
    IF workout_type \notin DOMAIN codes
    THEN [result |-> Raise("KeyError", workout_type), out |-> <<UNKNOWN_STR>>]
    ELSE [result |-> construct(codes[workout_type], data), out |-> <<>>]

(* Variant of after_call: the method uses up the action counter *)
after_call_resets(self) == [self EXCEPT !.action = 0]

(* The record after one of its methods has run, and the message after      *)
(* get_message has run: no method assigns an attribute.                    *)
after_call(self) == self
after_get_message(self) == self

---------------------------------------------------------------------------
(* The inputs explored *)

(* The data lists a client passes: step counts in lists of every length,  *)
(* stroke counts in the five-element lists of a swim.                      *)
DataLists ==
    {<<>>}
    \cup {<<a>> : a \in Steps}
    \cup {<<a, d>> : a \in Steps, d \in Durations}
    \cup {<<a, d, w>> : a \in Steps, d \in Durations, w \in Weights}
    \cup {<<a, d, w, h>> : a \in Steps, d \in Durations, w \in Weights,
                           h \in Fourths}
    \cup {<<a, d, w, h, c>> : a \in Steps \cup Strokes, d \in Durations,
                              w \in Weights, h \in Fourths, c \in Fifths}

packages_literal ==
    << <<"SWM", <<720, 1, 80, 25, 40>> >>,
       <<"RUN", <<15000, 1, 75>> >>,
       <<"WLK", <<9000, 1, 75, 180>> >> >>

FaultyPackages ==
    { <<"XXX", <<>> >>, <<"RUN", <<15000, 1>> >>, <<"WLK", <<9000, 0, 75, 180>> >> }

RunnerInputs == {packages_literal[k] : k \in 1..3} \cup FaultyPackages

(* The lists the loop of lines 191-193 is run on: the literal list of     *)
(* lines 185-189 and the lists of up to MaxEntries pairs drawn from its    *)
(* pairs and from pairs that fail (an unknown code, a short data list, a   *)
(* zero duration).                                                         *)
PackageLists == UNION {[1..k -> RunnerInputs] : k \in 1..MaxEntries}

Methods == {"get_distance", "get_mean_speed", "get_spent_calories",
            "show_training_info", "get_message"}
NotCalled == [kind |-> "uncalled"]
NoArgs == [workout_type |-> "", data |-> <<>>]

---------------------------------------------------------------------------
(* The state machine *)

Init ==
    /\ name \in {"__main__", "homework"}
    /\ packages \in (IF name = "__main__" THEN PackageLists ELSE {<<>>})
    /\ i = 1
    /\ pc = (IF name = "__main__" THEN "for" ELSE "client")
    /\ training = None
    /\ info = None
    /\ ret = NotCalled
    /\ op = "start"
    /\ args = NoArgs
    /\ stdout = <<>>
    /\ built = None
    /\ first = [m \in Methods |-> NotCalled]
    /\ again = FALSE

(* for workout_type, data in packages: training = read_package(...) *)
For_read_package ==
    /\ pc = "for"
    /\ i <= Len(packages)
    /\ LET r == read_package(packages[i][1], packages[i][2])
       IN  /\ ret' = r.result
           /\ stdout' = stdout \o r.out
           /\ training' = (IF Returned(r.result) THEN r.result.value ELSE training)
           /\ built' = (IF Returned(r.result) THEN r.result.value ELSE built)
           /\ pc' = (IF Returned(r.result) THEN "main" ELSE "raised")
    /\ op' = "read_package"
    /\ args' = [workout_type |-> packages[i][1], data |-> packages[i][2]]
    /\ UNCHANGED <<name, packages, i, info, first, again>>

(* main, line 180: info = training.show_training_info() *)
Main_show_training_info ==
    /\ pc = "main"
    /\ ret' = show_training_info(training)
    /\ info' = (IF Returned(ret') THEN ret'.value ELSE info)
    /\ pc' = (IF Returned(ret') THEN "print" ELSE "raised")
    /\ op' = "show_training_info"
    /\ UNCHANGED <<name, packages, i, training, args, stdout, built, first, again>>

(* Variant of Main_print: the message is built and not printed *)
Main_print_silent ==
    /\ pc = "print"
    /\ ret' = get_message(info)
    /\ stdout' = stdout
    /\ pc' = "for"
    /\ i' = i + 1
    /\ op' = "print"
    /\ UNCHANGED <<name, packages, training, info, args, built, first, again>>

(* main, line 181: print(info.get_message()); the loop moves to the next pair *)
Main_print ==
    /\ pc = "print"
    /\ ret' = get_message(info)
    /\ stdout' = Append(stdout, ret'.value)
    /\ pc' = "for"
    /\ i' = i + 1
    /\ op' = "print"
    /\ UNCHANGED <<name, packages, training, info, args, built, first, again>>

(* the list is exhausted *)
For_exit ==
    /\ pc = "for"
    /\ i > Len(packages)
    /\ pc' = "exit"
    /\ UNCHANGED <<name, packages, i, training, info, ret, op, args, stdout,
                   built, first, again>>

(* An importing client calls read_package *)
Call_read_package(workout_type, data) ==
    /\ pc = "client"
    /\ op = "start"
    /\ LET r == read_package(workout_type, data)
       IN  /\ ret' = r.result
           /\ stdout' = stdout \o r.out
           /\ training' = (IF Returned(r.result) THEN r.result.value ELSE training)
           /\ built' = (IF Returned(r.result) THEN r.result.value ELSE built)
    /\ op' = "read_package"
    /\ args' = [workout_type |-> workout_type, data |-> data]
    /\ UNCHANGED <<name, packages, i, pc, info, first, again>>

(* An importing client constructs the base type: Training(action, duration, weight) *)
Call_Training(data) ==
    /\ pc = "client"
    /\ op = "start"
    /\ LET r == Training_init("Training", data)
       IN  /\ ret' = r
           /\ training' = (IF Returned(r) THEN r.value ELSE training)
           /\ built' = (IF Returned(r) THEN r.value ELSE built)
    /\ op' = "Training"
    /\ args' = [workout_type |-> "", data |-> data]
    /\ UNCHANGED <<name, packages, i, pc, info, stdout, first, again>>

Remember(m, r) == IF first[m] = NotCalled THEN [first EXCEPT ![m] = r] ELSE first

(* An importing client calls a method of the record it holds *)
Call_method(m, r) ==
    /\ pc = "client"
    /\ training # None
    /\ ret' = r
    /\ op' = m
    /\ first' = Remember(m, r)
    /\ again' = (first[m] # NotCalled)
    /\ training' = after_call(training)
    /\ UNCHANGED <<name, packages, i, pc, args, stdout, built>>

Call_get_distance ==
    /\ Call_method("get_distance", get_distance(training))
    /\ UNCHANGED info

Call_get_mean_speed ==
    /\ Call_method("get_mean_speed", get_mean_speed(training))
    /\ UNCHANGED info

Call_get_spent_calories ==
    /\ Call_method("get_spent_calories", get_spent_calories(training))
    /\ UNCHANGED info

Call_show_training_info ==
    /\ Call_method("show_training_info", show_training_info(training))
    /\ info' = (IF Returned(ret') THEN ret'.value ELSE info)

Call_get_message ==
    /\ pc = "client"
    /\ info # None
    /\ ret' = get_message(info)
    /\ op' = "get_message"
    /\ first' = Remember("get_message", ret')
    /\ again' = (first["get_message"] # NotCalled)
    /\ info' = after_get_message(info)
    /\ UNCHANGED <<name, packages, i, pc, training, args, stdout, built>>

Next ==
    \/ For_read_package
    \/ Main_show_training_info
    \/ Main_print
    \/ For_exit
    \/ \E workout_type \in TypeCodes, data \in DataLists :
           Call_read_package(workout_type, data)
    \/ \E data \in DataLists : Call_Training(data)
    \/ Call_get_distance
    \/ Call_get_mean_speed
    \/ Call_get_spent_calories
    \/ Call_show_training_info
    \/ Call_get_message

Spec == Init /\ [][Next]_vars

---------------------------------------------------------------------------
(* Vocabulary of the properties, taken from the specification's text *)

KnownCodes == {"SWM", "RUN", "WLK"}
Variants == {"Running", "SportsWalking", "Swimming"}
VariantOf(code) ==
    CASE code = "SWM" -> "Swimming"
      [] code = "RUN" -> "Running"
      [] code = "WLK" -> "SportsWalking"
ParamCount(code) ==
    CASE code = "SWM" -> 5
      [] code = "RUN" -> 3
      [] code = "WLK" -> 4

IsVariantRecord(t) == t.cls \in Variants
ZeroDivides(t) ==
    t.duration = 0 \/ (t.cls = "SportsWalking" /\ t.height = 0)

RunningLiteral == [cls |-> "Running", action |-> 15000, duration |-> 1, weight |-> 75]
WalkingLiteral == [cls |-> "SportsWalking", action |-> 9000, duration |-> 1,
                   weight |-> 75, height |-> 180]
SwimmingLiteral == [cls |-> "Swimming", action |-> 720, duration |-> 1, weight |-> 80,
                    length_pool |-> 25, count_pool |-> 40]

---------------------------------------------------------------------------
(* C1: for a recognized type code and a data list of the variant's         *)
(* parameter count, read_package returns a record of exactly the matching  *)
(* variant whose fields are the data elements in constructor order.        *)
C1_ReadPackageBuildsVariant ==
    (/\ op = "read_package"
     /\ args.workout_type \in KnownCodes
     /\ Len(args.data) = ParamCount(args.workout_type))
    => /\ Returned(ret)
       /\ ret.value = training
       /\ training.cls = VariantOf(args.workout_type)
       /\ training.action = args.data[1]
       /\ training.duration = args.data[2]
       /\ training.weight = args.data[3]
       /\ CASE args.workout_type = "RUN" ->
                 DOMAIN training = {"cls", "action", "duration", "weight"}
            [] args.workout_type = "WLK" ->
                 /\ DOMAIN training = {"cls", "action", "duration", "weight", "height"}
                 /\ training.height = args.data[4]
            [] args.workout_type = "SWM" ->
                 /\ DOMAIN training = {"cls", "action", "duration", "weight",
                                       "length_pool", "count_pool"}
                 /\ training.length_pool = args.data[4]
                 /\ training.count_pool = args.data[5]

C1_Witness ==
    /\ op = "read_package"
    /\ args.workout_type = "SWM"
    /\ args.data = <<720, 1, 80, 25, 40>>
    /\ training = SwimmingLiteral

(* C2: for a type code that is none of SWM, RUN, WLK, read_package raises  *)
(* the unknown-type error (KeyError) carrying the offending code; nothing  *)
(* is returned, no record is bound and the runner does not go on to main.  *)
C2_UnknownCodeRaises ==
    (op = "read_package" /\ args.workout_type \notin KnownCodes)
    => /\ Raised(ret, "KeyError")
       /\ ret.arg = args.workout_type
       /\ pc \in {"raised", "client"}
       /\ (name = "homework" => training = None /\ built = None)

C2_Witness ==
    /\ op = "read_package"
    /\ args = [workout_type |-> "XXX", data |-> <<>>]
    /\ Raised(ret, "KeyError")
    /\ training = None

(* C3 as stated: whatever an importer calls on a record read_package      *)
(* built, the only failures are the unknown type code and the arity        *)
(* mismatch, also for duration 0 and height 0.                             *)
C3_OnlyTwoFailures ==
    (name = "homework" /\ (built = None \/ IsVariantRecord(built)))
    => (ret.kind = "raise" => ret.exc \in {"KeyError", "TypeError"})

(* C3 amended: on a record read_package built, get_distance and            *)
(* get_message never fail; get_mean_speed fails, with a division by zero,  *)
(* exactly when duration is 0; get_spent_calories and show_training_info   *)
(* fail, with a division by zero, exactly when duration is 0 or the record *)
(* is a SportsWalking of height 0; read_package fails only with the        *)
(* unknown-type or the arity error.                                        *)
C3_FailuresOfOperations ==
    /\ op = "read_package"
        => \/ Returned(ret)
           \/ Raised(ret, "KeyError")
           \/ Raised(ret, "TypeError")
    /\ (training # None /\ IsVariantRecord(training))
        => /\ op = "get_distance" => Returned(ret)
           /\ op \in {"get_message", "print"} => Returned(ret)
           /\ op = "get_mean_speed"
                => IF training.duration = 0
                   THEN Raised(ret, "ZeroDivisionError")
                   ELSE Returned(ret)
           /\ op \in {"get_spent_calories", "show_training_info"}
                => IF ZeroDivides(training)
                   THEN Raised(ret, "ZeroDivisionError")
                   ELSE Returned(ret)

C3_Witness ==
    /\ op = "get_spent_calories"
    /\ training.cls = "SportsWalking"
    /\ training.height = 0
    /\ training.duration # 0
    /\ Raised(ret, "ZeroDivisionError")

(* The value (18 x speed - 20) x weight / 1000 x duration x 60 of a record *)
RunningFormula(t, speed) ==
    QMul(QMul(QDiv(QMul(QSub(QMul(I(18), speed), I(20)), I(t.weight)), I(1000)),
              I(t.duration)),
         I(60))

(* C4 as stated: for Running(15000, 1, 75) the distance is 9.75, the mean  *)
(* speed 9.75 and the calories 741.375.                                    *)
C4_RunningLiteral741 ==
    training = RunningLiteral
    => /\ op = "get_distance" => ret = Ret(Q(975, 100))
       /\ op = "get_mean_speed" => ret = Ret(Q(975, 100))
       /\ op = "get_spent_calories" => ret = Ret(Q(741375, 1000))

(* C4 amended: for Running(15000, 1, 75) the distance is 9.75, the mean    *)
(* speed 9.75 and the calories, (18 x speed - 20) x weight / 1000 x        *)
(* duration x 60, are 699.75; every Running record of non-zero duration    *)
(* has the calories of that formula.                                       *)
C4_RunningLiteral699 ==
    /\ training = RunningLiteral
        => /\ op = "get_distance" => ret = Ret(Q(975, 100))
           /\ op = "get_mean_speed" => ret = Ret(Q(975, 100))
           /\ op = "get_spent_calories" => ret = Ret(Q(69975, 100))
    /\ (training.cls = "Running" /\ training.duration # 0
          /\ op = "get_spent_calories")
        => ret = Ret(RunningFormula(training,
                         Q(training.action * 65, 100000 * training.duration)))

C4_Witness ==
    /\ training = RunningLiteral
    /\ op = "get_spent_calories"
    /\ Returned(ret)
    /\ Fmt3(ret.value) = "699.750"

(* Squared speed over height of a SportsWalking record, as a rational *)
SpeedSquaredOverHeight(t) ==
    LET speed == Q(t.action * 65, 100000 * t.duration)
    IN  QDiv(QMul(speed, speed), I(t.height))

(* (0.035 x weight + q x 0.029 x weight) x duration x 60 *)
WalkingFormula(t, q) ==
    QMul(QMul(QAdd(QMul(Q(35, 1000), I(t.weight)),
                   QMul(QMul(q, Q(29, 1000)), I(t.weight))),
              I(t.duration)),
         I(60))

WalkingGeneral ==
    (/\ training.cls = "SportsWalking"
     /\ training.duration > 0
     /\ training.height # 0
     /\ op = "get_spent_calories")
    => LET q == SpeedSquaredOverHeight(training)
           floor == I(q[1] \div q[2])
       IN  /\ ret = Ret(WalkingFormula(training, floor))
           /\ (q[2] # 1 /\ training.weight # 0)
                => ret # Ret(WalkingFormula(training, q))

(* C5 as stated: the floor-division formula, and for SportsWalking(9000,   *)
(* 1, 75, 180) distance 5.85, speed 5.85 and calories 157.24 to three      *)
(* decimals.                                                               *)
C5_WalkingLiteral157_24 ==
    /\ WalkingGeneral
    /\ training = WalkingLiteral
        => /\ op = "get_distance" => ret = Ret(Q(585, 100))
           /\ op = "get_mean_speed" => ret = Ret(Q(585, 100))
           /\ op = "get_spent_calories"
                => /\ ~QLess(ret.value, Q(15724, 100))
                   /\ QLess(ret.value, Q(15725, 100))

(* C5 amended: for every SportsWalking record with duration > 0 and        *)
(* height # 0 the calories are (0.035 x weight + floor(speed^2 / height) x *)
(* 0.029 x weight) x duration x 60, with floor division and not true       *)
(* division; for SportsWalking(9000, 1, 75, 180) distance and speed are    *)
(* 5.85 and the calories are 157.5, printed 157.500.                       *)
C5_WalkingLiteral157_5 ==
    /\ WalkingGeneral
    /\ training = WalkingLiteral
        => /\ op = "get_distance" => ret = Ret(Q(585, 100))
           /\ op = "get_mean_speed" => ret = Ret(Q(585, 100))
           /\ op = "get_spent_calories"
                => ret = Ret(Q(1575, 10)) /\ Fmt3(ret.value) = "157.500"

C5_Witness ==
    /\ training.cls = "SportsWalking"
    /\ training.duration > 0
    /\ training.height = 25
    /\ op = "get_spent_calories"
    /\ SpeedSquaredOverHeight(training)[2] # 1
    /\ QFloor(SpeedSquaredOverHeight(training)) = I(3)
    /\ Returned(ret)

(* C6: for every Swimming record the distance is action x 1.38 / 1000,     *)
(* whatever the pool fields; with duration > 0 the mean speed is           *)
(* (pool length x lap count / 1000) / duration, whatever the action count, *)
(* and the calories are (speed + 1.1) x 2 x weight; for Swimming(720, 1,   *)
(* 80, 25, 40) these are 0.9936, 1.0 and 336.0.                            *)
C6_SwimmingFormulas ==
    /\ (training.cls = "Swimming" /\ training.duration > 0)
        => LET speed == Q(training.length_pool * training.count_pool,
                          1000 * training.duration)
           IN  /\ op = "get_distance"
                    => ret = Ret(Q(training.action * 138, 100000))
               /\ op = "get_mean_speed" => ret = Ret(speed)
               /\ op = "get_spent_calories"
                    => ret = Ret(QMul(QMul(QAdd(speed, Q(11, 10)), I(2)),
                                      I(training.weight)))
    /\ training = SwimmingLiteral
        => /\ op = "get_distance" => ret = Ret(Q(9936, 10000))
           /\ op = "get_mean_speed" => ret = Ret(I(1))
           /\ op = "get_spent_calories" => ret = Ret(I(336))

C6_Witness ==
    /\ training = SwimmingLiteral
    /\ op = "get_distance"
    /\ ret = Ret(Q(9936, 10000))
    /\ first["get_mean_speed"] = Ret(I(1))
    /\ first["get_spent_calories"] = Ret(I(336))

(* What a report of record t must hold: the variant's name and the        *)
(* record's duration, distance, mean speed and calories.                   *)
ReportOf(t, label) ==
    [training_type |-> label,
     duration |-> t.duration,
     distance |-> get_distance(t).value,
     speed |-> get_mean_speed(t).value,
     calories |-> get_spent_calories(t).value]

NoBaseLabel == info # None => info.training_type \in Variants

BaseTypeFails ==
    training.cls = "Training"
    => /\ op = "get_spent_calories" => Raised(ret, "NotImplementedError")
       /\ op = "show_training_info" => ~Returned(ret)
       /\ info = None

(* C7 as stated: for every record read_package builds from a known code    *)
(* (here: for an importer), show_training_info returns a report labelled   *)
(* with the variant's name and holding the record's duration, distance,    *)
(* speed and calories; on the base type it fails; no report carries the    *)
(* base type's name.                                                       *)
C7_EveryRecordReports ==
    /\ NoBaseLabel
    /\ BaseTypeFails
    /\ (name = "homework" /\ op = "show_training_info" /\ IsVariantRecord(training))
        => /\ Returned(ret)
           /\ ret.value = ReportOf(training, VariantOf(args.workout_type))

(* C7 amended: for every record read_package builds from a known code with *)
(* duration # 0 (and, for SportsWalking, height # 0), show_training_info   *)
(* returns a report labelled with the variant's name and holding the       *)
(* record's duration, get_distance, get_mean_speed and get_spent_calories; *)
(* with duration 0 or such a height 0 it raises the division error and     *)
(* returns no report; on the base type get_spent_calories raises           *)
(* NotImplementedError and show_training_info returns no report; no report *)
(* carries the base type's name.                                           *)
C7_ValidRecordReports ==
    /\ NoBaseLabel
    /\ BaseTypeFails
    /\ (op = "show_training_info" /\ IsVariantRecord(training))
        => IF ZeroDivides(training)
           THEN Raised(ret, "ZeroDivisionError")
           ELSE /\ Returned(ret)
                /\ ret.value = ReportOf(training, VariantOf(args.workout_type))
                /\ info = ret.value

C7_Witness ==
    /\ op = "show_training_info"
    /\ args.workout_type = "WLK"
    /\ training = WalkingLiteral
    /\ Returned(ret)
    /\ info.training_type = "SportsWalking"
    /\ info.calories = Q(1575, 10)

(* C8: for a recognized code and a data list whose length is not the       *)
(* variant's parameter count, read_package raises the construction error   *)
(* (TypeError) to its caller; no record is returned or bound, the runner   *)
(* does not go on to main, and "Unknown workout type" is not printed.      *)
C8_ArityMismatchRaises ==
    (/\ op = "read_package"
     /\ args.workout_type \in KnownCodes
     /\ Len(args.data) # ParamCount(args.workout_type))
    => /\ Raised(ret, "TypeError")
       /\ pc \in {"raised", "client"}
       /\ (name = "homework" => training = None /\ built = None)
       /\ \A k \in DOMAIN stdout : stdout[k] # "Unknown workout type"

C8_Witness ==
    /\ op = "read_package"
    /\ args.workout_type = "WLK"
    /\ Len(args.data) = 3
    /\ Raised(ret, "TypeError")
    /\ training = None
    /\ stdout = <<>>

(* The summary line of a pair, from the claims' formulas *)
SummaryOf(p) ==
    get_message(show_training_info(read_package(p[1], p[2]).result.value).value).value

ExpectedOutput ==
    << "Tip trenirovki: Swimming; Dlitelnost: 1.000 ch.; Distantsiya: 0.994 km; Sr. skorost: 1.000 km/ch; Potracheno kkal: 336.000.",
       "Tip trenirovki: Running; Dlitelnost: 1.000 ch.; Distantsiya: 9.750 km; Sr. skorost: 9.750 km/ch; Potracheno kkal: 699.750.",
       "Tip trenirovki: SportsWalking; Dlitelnost: 1.000 ch.; Distantsiya: 5.850 km; Sr. skorost: 5.850 km/ch; Potracheno kkal: 157.500." >>

IsSummary(line) == line # "Unknown workout type"

(* The runner's order: i - 1 pairs are done, each with its summary line in *)
(* input order; the record of pair i is built before its line is printed;  *)
(* the literal list ends with its three lines and never fails.             *)
RunnerOrder ==
    name = "__main__"
    => LET summaries == SelectSeq(stdout, IsSummary)
       IN  /\ Len(summaries) = i - 1
           /\ \A k \in 1..(i - 1) : summaries[k] = SummaryOf(packages[k])
           /\ pc \in {"main", "print"}
                => /\ i <= Len(packages)
                   /\ training = read_package(packages[i][1], packages[i][2]).result.value
           /\ pc = "print" => info = show_training_info(training).value
           /\ pc = "exit" => i - 1 = Len(packages)
           /\ pc = "raised" => i <= Len(packages)
           /\ packages = packages_literal
                => /\ pc # "raised"
                   /\ pc = "exit" => stdout = ExpectedOutput

C10_CallsChangeNothing ==
    /\ training = built
    /\ (info # None /\ (name = "homework" \/ pc = "print"))
        => info = show_training_info(built).value
    /\ op \in Methods /\ name = "homework" => ret = first[op]
    /\ first["get_message"] # NotCalled => first["get_message"] = get_message(info)
    /\ \A m \in Methods \ {"get_message"} :
           first[m] # NotCalled
           => first[m] = (CASE m = "get_distance" -> get_distance(built)
                            [] m = "get_mean_speed" -> get_mean_speed(built)
                            [] m = "get_spent_calories" -> get_spent_calories(built)
                            [] m = "show_training_info" -> show_training_info(built))

C10_Witness ==
    /\ again
    /\ op = "get_message"
    /\ ret = first["get_message"]
    /\ first["get_distance"] # NotCalled
    /\ first["get_mean_speed"] # NotCalled
    /\ first["get_spent_calories"] # NotCalled
    /\ training = built

=============================================================================
